---- MODULE Spec2Model ----
(***************************************************************************)
(* webtunnel: the server's IP address manager (IPPam), the per-connection  *)
(* WebSocket handler (wsEndpoint) and the tunnel reader (processTUNPacket),*)
(* and the client (Start, Stop, processNetPacket, processWSPacket and the  *)
(* ARP and DHCP responders) of src/webtunnelclient/client.go.              *)
(*                                                                         *)
(* Specifications:                                                         *)
(*   SpecIPPam   any sequence of calls of the public IPPam methods on an   *)
(*               IPPam made by NewIPPam;                                   *)
(*   SpecLock    tasks calling the public IPPam methods concurrently;      *)
(*   Spec        the server made by NewWebTunnelServer: connection         *)
(*               handlers and the tunnel reader running concurrently;      *)
(*   SpecActive  Spec with leases made active;                             *)
(*   SpecClient  a client on a tap or tun device: its two tasks and Stop;  *)
(*   SpecRoutes  the ClasslessStaticRoute option of buildDHCPopts;         *)
(*   SpecUserinfo  SpecIPPam with calls of GetUserinfo;                    *)
(*   SpecStop    the client together with the wsEndpoint of its connection;*)
(*   SpecBuf     the read buffer of processTUNPacket and processNetPacket. *)
(*                                                                         *)
(* IPPam addresses are scaled down: an address is two bytes of ByteBits    *)
(* bits each (the source has four bytes of eight bits).  Address strings   *)
(* are sequences of characters "<byte>.<byte>".  The route option is       *)
(* modelled with addresses of four bytes of eight bits.                    *)
(***************************************************************************)
EXTENDS Integers, Sequences, FiniteSets, TLC

\* ------------------------------------------------------------------ bounds
\* Bits in one address byte.
ByteBits == 2
\* Largest number of host bits of the client CIDR (its size is 2^host bits).
MaxHostBits == 2
\* Host bits of the client CIDR of the server of Spec and SpecActive.
ServerHostBits == 3
\* Number of WebSocket connections.
NConns == 2
\* Calls of IPPam methods in a behaviour of SpecIPPam.
MaxCalls == 4
\* Transaction ids of the DHCP requests read from the tap device.
MaxXid == 2

\* Route prefixes in w.ifce.RoutePrefix.
MaxRoutes == 2
\* Tasks that call IPPam methods concurrently in SpecLock.
NTasks == 2
\* Bytes of the read buffer pkt (2048 in the program) and of the Ethernet
\* header (14) in SpecBuf.
BufSize == 3
EthHdrLen == 1

\* -------------------------------------------------------- program constants
ipStatusRequested == 1
ipStatusInUse == 2
\* Bits in a byte of an IPv4 address and bytes in an IPv4 address.
OctetBits == 8
IPv4Len == 4

\* ------------------------------------------------------------------ state
VARIABLES
    ipam,         \* IPPam fields fixed by NewIPPam: ip, ipnet, net, bcast
    allocations,  \* IPPam.allocations: address string -> ipData
    gwIP,         \* WebTunnelServer.gwIP (address string)
    call,         \* SpecIPPam: the last IPPam method call and what it returned
    ncalls,       \* SpecIPPam: number of calls made
    gwRes,        \* SpecIPPam: history of the reservation of gwIP
    hpc,          \* wsEndpoint of each connection: where it is
    hip,          \* wsEndpoint: the local ip (EmptyStr before AcquireIP returns one)
    hrel,         \* wsEndpoint: number of ReleaseIP calls that returned nil
    hcfg,         \* wsEndpoint: the getConfig reply has been written
    rpc,          \* processTUNPacket: where it is
    rpkt,         \* processTUNPacket: the packet read (NoPkt between packets)
    rws,          \* processTUNPacket: the connection GetData returned
    proc,         \* the server process: running, exited or crashed
    isTap,        \* client: w.ifce.IsTAP()
    ifce,         \* client: Interface fields set by configureInterface
    cpc,          \* client: where Start (configureInterface) is
    npc,          \* processNetPacket: where it is
    nfrm,         \* processNetPacket: the frame read from the device
    nout,         \* processNetPacket: what it is writing (device frame or WebSocket payload)
    wpc,          \* processWSPacket: where it is
    wout,         \* processWSPacket: what it is writing to the device
    nerr,         \* processNetPacket: the error it sends on w.Error
    werr,         \* processWSPacket: the error it sends on w.Error
    spc,          \* Stop: where it is
    wsState,      \* client WebSocket connection: open, closeSent, closed
    cproc,        \* the client process: running, exited or crashed
    routeIn,      \* buildDHCPopts: w.ifce.RoutePrefix and w.ifce.GWIP
    routeOut,     \* buildDHCPopts: the bytes of the ClasslessStaticRoute option
    lock,         \* IPPam.lock: the task holding it (0: none)
    lpc,          \* tasks calling IPPam methods: method, position and argument
    nrecv,        \* the server's main: number of values it has received from r.Error
    osReady,      \* client: wc.IsConfigured(w.ifce.Name(), w.ifce.IP.String())
    wpkt,         \* processWSPacket: the binary message read from the WebSocket
    bmode,        \* SpecBuf: the read loop (server, tun or tap)
    bpkt,         \* SpecBuf: the read buffer pkt
    bn,           \* SpecBuf: the n the last Read returned
    bout,         \* SpecBuf: the payload of the binary message written
    bpc           \* SpecBuf: where the read loop is

apiVars == <<call, ncalls, gwRes>>
handlerVars == <<hpc, hip, hrel, hcfg>>
readerVars == <<rpc, rpkt, rws>>
clientVars == <<isTap, ifce, cpc, npc, nfrm, nout, nerr, wpc, wpkt, wout, werr, spc, wsState, cproc>>
routeVars == <<routeIn, routeOut>>
lockVars == <<lock, lpc>>
bufVars == <<bmode, bpkt, bn, bout, bpc>>
restVars == <<clientVars, routeVars, lockVars, bufVars, osReady>>
otherVars == <<restVars, nrecv>>

\* ------------------------------------------------- bytes, addresses, strings
RECURSIVE Pow2(_)
Pow2(n) == IF n = 0 THEN 1 ELSE 2 * Pow2(n - 1)

ByteMod == Pow2(ByteBits)
Byte == 0 .. (ByteMod - 1)
AddrBits == 2 * ByteBits
IP == Byte \X Byte

\* The decimal characters of a byte value.
Digit == <<"0", "1", "2", "3", "4", "5", "6", "7", "8", "9", "10", "11", "12", "13", "14", "15">>

\* net.IP.String(): dotted form.
IPString(ip) == <<Digit[ip[1] + 1], ".", Digit[ip[2] + 1]>>

NoIP == <<>>

\* The empty string, as a sequence of characters like every address string.
EmptyStr == <<>>

IsByteStr(c) == \E b \in Byte : Digit[b + 1] = c
ByteOf(c) == CHOOSE b \in Byte : Digit[b + 1] = c

\* net.ParseIP: the address of a dotted string, NoIP (nil) for any other string.
ParseIP(s) ==
    IF Len(s) = 3 /\ s[2] = "." /\ IsByteStr(s[1]) /\ IsByteStr(s[3])
    THEN <<ByteOf(s[1]), ByteOf(s[3])>>
    ELSE NoIP

Min(a, b) == IF a < b THEN a ELSE b
Max(a, b) == IF a > b THEN a ELSE b

\* Number of low bits of byte j (1 = most significant) a mask of `ones` leading
\* one bits leaves clear.
HostBitsOf(ones, j) == ByteBits - Max(0, Min(ByteBits, ones - (j - 1) * ByteBits))

\* net.IP.Mask: byte-wise AND with the mask of `ones` leading one bits.
MaskIP(ip, ones) == [j \in 1..2 |-> ip[j] - (ip[j] % Pow2(HostBitsOf(ones, j)))]

\* net.IPNet.Contains.
Contains(ipnet, ip) == MaskIP(ip, ipnet.ones) = MaskIP(ipnet.IP, ipnet.ones)

\* inc increments an address in place, carrying into the higher bytes and
\* wrapping to zero after the last address.
inc(ip) ==
    LET b2 == (ip[2] + 1) % ByteMod
    IN  IF b2 > 0 THEN <<ip[1], b2>>
        ELSE <<(ip[1] + 1) % ByteMod, b2>>

\* lastAddr: the network address OR the inverted mask.
lastAddr(ipnet) == [j \in 1..2 |-> ipnet.IP[j] + (Pow2(HostBitsOf(ipnet.ones, j)) - 1)]

\* ------------------------------------------------------------------ ipData
NilData == [kind |-> "nil", id |-> 0]
Sentinel == [kind |-> "struct{}", id |-> 0]
Conns == 1 .. NConns
ConnData(c) == [kind |-> "conn", id |-> c]
NilUser == <<>>
UserInfo(username, hostname) == <<username, hostname>>

ipData(st, d, u) == [ipStatus |-> st, data |-> d, userinfo |-> u]

\* A map with key k set to v (k may be new), and with key k deleted.
MapSet(m, k, v) == [x \in DOMAIN m \cup {k} |-> IF x = k THEN v ELSE m[x]]
MapDelete(m, k) == [x \in DOMAIN m \ {k} |-> m[x]]

\* ------------------------------------------------------------------ IPPam
\* NewIPPam(prefix): prefix is "ip/ones".
NewIPPamFields(ip, ones) ==
    LET ipnet == [IP |-> MaskIP(ip, ones), ones |-> ones]
    IN  [ip |-> ip, ipnet |-> ipnet, net |-> MaskIP(ip, ones), bcast |-> lastAddr(ipnet)]

NewIPPamAllocations(f) ==
    MapSet(MapSet(<<>>, IPString(f.bcast), ipData(ipStatusInUse, NilData, NilUser)),
           IPString(f.net), ipData(ipStatusInUse, NilData, NilUser))

isValidIP(ipAddr) ==
    LET ip == ParseIP(ipAddr)
    IN  IF ip = NoIP THEN FALSE ELSE Contains(ipam.ipnet, ip)

\* The scan of AcquireIP: the first address from ip on, while in the CIDR, that
\* has no entry; NoIP when the scan leaves the CIDR.
RECURSIVE scanFree(_, _)
scanFree(allocs, ip) ==
    IF ~Contains(ipam.ipnet, ip) THEN NoIP
    ELSE IF IPString(ip) \notin DOMAIN allocs THEN ip
    ELSE scanFree(allocs, inc(ip))

AcquireIPNoStore(allocs, data) ==
    LET ip == scanFree(allocs, MaskIP(ipam.ip, ipam.ipnet.ones))
    IN  IF ip = NoIP
        THEN [ip |-> EmptyStr, err |-> "IPs exhausted", allocations |-> allocs]
        ELSE [ip |-> IPString(ip), err |-> "", allocations |-> allocs]

AcquireIPHighest(allocs, data) ==
    LET free == {ip \in IP : Contains(ipam.ipnet, ip) /\ IPString(ip) \notin DOMAIN allocs}
    IN  IF free = {} THEN [ip |-> EmptyStr, err |-> "IPs exhausted", allocations |-> allocs]
        ELSE LET ip == CHOOSE a \in free : \A b \in free : b[1] * ByteMod + b[2] <= a[1] * ByteMod + a[2]
             IN [ip |-> IPString(ip), err |-> "",
                 allocations |-> MapSet(allocs, IPString(ip), ipData(ipStatusRequested, data, NilUser))]

AcquireIP(allocs, data) ==
    LET ip == scanFree(allocs, MaskIP(ipam.ip, ipam.ipnet.ones))
    IN  IF ip = NoIP
        THEN [ip |-> EmptyStr, err |-> "IPs exhausted", allocations |-> allocs]
        ELSE [ip |-> IPString(ip), err |-> "",
              allocations |-> MapSet(allocs, IPString(ip), ipData(ipStatusRequested, data, NilUser))]

SetIPActiveWithUserInfo(allocs, ip, username, hostname) ==
    IF ip \notin DOMAIN allocs
    THEN [err |-> "IP not available", allocations |-> allocs]
    ELSE [err |-> "",
          allocations |-> [allocs EXCEPT ![ip] =
              ipData(ipStatusInUse, @.data, UserInfo(username, hostname))]]

GetDataAnyStatus(allocs, ip) ==
    IF ip \notin DOMAIN allocs THEN [data |-> NilData, err |-> "IP not allocated"]
    ELSE [data |-> allocs[ip].data, err |-> ""]

GetData(allocs, ip) ==
    IF ip \notin DOMAIN allocs THEN [data |-> NilData, err |-> "IP not allocated"]
    ELSE IF allocs[ip].ipStatus # ipStatusInUse
    THEN [data |-> NilData, err |-> "IP not marked in use"]
    ELSE [data |-> allocs[ip].data, err |-> ""]

\* GetUserinfo: *i.allocations[ip].userinfo of an entry InUse that has no
\* userinfo is a nil dereference (a panic).
GetUserinfo(allocs, ip) ==
    IF ip \notin DOMAIN allocs \/ allocs[ip].ipStatus # ipStatusInUse
    THEN [userinfo |-> NilUser, err |-> "IP not available or not marked in use", crash |-> FALSE]
    ELSE IF allocs[ip].userinfo = NilUser
    THEN [userinfo |-> NilUser, err |-> "", crash |-> TRUE]
    ELSE [userinfo |-> allocs[ip].userinfo, err |-> "", crash |-> FALSE]

DumpAllocations(allocs) ==
    [k \in {x \in DOMAIN allocs : allocs[x].userinfo # NilUser} |-> allocs[k].userinfo]

GetAllocatedCount(allocs) == Cardinality(DOMAIN allocs)

ReleaseIPNoDelete(allocs, ip) ==
    IF IPString(ipam.net) = ip \/ IPString(ipam.bcast) = ip
    THEN [err |-> "cannot release network or broadcast address", allocations |-> allocs]
    ELSE IF ip \notin DOMAIN allocs
    THEN [err |-> "IP not allocated", allocations |-> allocs]
    ELSE [err |-> "", allocations |-> allocs]

ReleaseIPUnguarded(allocs, ip) ==
    IF ip \notin DOMAIN allocs
    THEN [err |-> "IP not allocated", allocations |-> allocs]
    ELSE [err |-> "", allocations |-> MapDelete(allocs, ip)]

ReleaseIP(allocs, ip) ==
    IF IPString(ipam.net) = ip \/ IPString(ipam.bcast) = ip
    THEN [err |-> "cannot release network or broadcast address", allocations |-> allocs]
    ELSE IF ip \notin DOMAIN allocs
    THEN [err |-> "IP not allocated", allocations |-> allocs]
    ELSE [err |-> "", allocations |-> MapDelete(allocs, ip)]

AcquireSpecificIPNoStore(allocs, ip, data) ==
    IF ~isValidIP(ip)
    THEN [err |-> "not a valid IP", allocations |-> allocs]
    ELSE IF ip \in DOMAIN allocs
    THEN [err |-> "IP already in use", allocations |-> allocs]
    ELSE [err |-> "", allocations |-> allocs]

AcquireSpecificIP(allocs, ip, data) ==
    IF ~isValidIP(ip)
    THEN [err |-> "not a valid IP", allocations |-> allocs]
    ELSE IF ip \in DOMAIN allocs
    THEN [err |-> "IP already in use", allocations |-> allocs]
    ELSE [err |-> "", allocations |-> MapSet(allocs, ip, ipData(ipStatusInUse, data, NilUser))]

\* ------------------------------------------------------- configurations
\* The client CIDRs: every prefix length that leaves 0..MaxHostBits host bits
\* (never the whole address space), with a prefix address near the bottom of
\* the address space that is not the network address, and the last address of
\* the address space, after which inc wraps to zero.
PrefixOnes == {n \in 1 .. AddrBits : AddrBits - n <= MaxHostBits}
PrefixIPs == {<<0, 1>>, <<ByteMod - 1, ByteMod - 1>>}

\* The addresses of the CIDR.
CidrIPs == {ip \in IP : Contains(ipam.ipnet, ip)}

\* The strings a caller passes as an address: the dotted string of every
\* address of the CIDR, of the address after the broadcast address, and a
\* string that is no address.
BadString == <<"x">>
IPArgs == {IPString(ip) : ip \in CidrIPs \cup {inc(ipam.bcast)}} \cup {BadString}

\* The handles a caller of SpecIPPam stores with an address: AcquireIP is given
\* a connection, AcquireSpecificIP the empty struct (as NewWebTunnelServer does).
Data == {ConnData(c) : c \in Conns}

\* ------------------------------------------------------------ task state
NoPkt == [ok |-> FALSE, dst |-> EmptyStr]

\* No connection has been accepted, the tunnel reader is about to read.
InitTasks ==
    /\ hpc = [h \in Conns |-> "idle"]
    /\ hip = [h \in Conns |-> EmptyStr]
    /\ hrel = [h \in Conns |-> 0]
    /\ hcfg = [h \in Conns |-> FALSE]
    /\ rpc = "read"
    /\ rpkt = NoPkt
    /\ rws = 0
    /\ proc = "running"
    /\ nrecv = 0

\* ------------------------------------------------------- client: frames
\* Hardware addresses: of the local interface(s) and the synthetic gateway.
MACs == {"m1", "m2"}
gwHWAddr == "gw"
BroadcastMAC == "ff"

\* The layers gopacket finds in a packet; ok is FALSE for a layer the packet
\* does not have (packet.Layer returns nil).
NoArp == [ok |-> FALSE, op |-> "", sha |-> "", spa |-> "", tha |-> "", tpa |-> ""]
\* The IPv4 layer of a packet: its destination, and whether the header checksum
\* in its bytes is the one computed from the header.
NoIPv4 == [ok |-> FALSE, dst |-> "", sum |-> ""]
IPv4(dst, sum) == [ok |-> TRUE, dst |-> dst, sum |-> sum]
NoDHCP == [ok |-> FALSE, op |-> "", xid |-> 0, mt |-> "", yiaddr |-> "", siaddr |-> "", chaddr |-> ""]

\* What follows the Ethernet header (on a tun device and on the WebSocket: the
\* whole packet).  etype is the protocol of the outermost layer.
Payload(etype, arp, ipv4, dhcp) == [etype |-> etype, arp |-> arp, ipv4 |-> ipv4, dhcp |-> dhcp]
Frame(src, dst, payload) == [src |-> src, dst |-> dst, payload |-> payload]
NoPayload == Payload("", NoArp, NoIPv4, NoDHCP)
NoFrame == Frame("", "", NoPayload)

\* ARP frames: requests for the gateway or any other address, and replies.
ArpOps == {"request", "reply"}
ArpTargets == {"gwip", "other"}
ArpFrames ==
    {Frame(m, BroadcastMAC,
           Payload("ARP", [ok |-> TRUE, op |-> o, sha |-> m, spa |-> "ip1", tha |-> "", tpa |-> t],
                   NoIPv4, NoDHCP)) : m \in MACs, o \in ArpOps, t \in ArpTargets}

\* DHCPv4 frames (IPv4 broadcast, UDP): the message type option holds one of
\* the types, or is missing, or is there with no data.
DHCPMsgTypes == {"DISCOVER", "REQUEST", "RELEASE", "INFORM", "missing", "empty"}
Xids == 1 .. MaxXid
DHCPFrames ==
    {Frame(m, BroadcastMAC,
           Payload("IPv4", NoArp, [ok |-> TRUE, dst |-> "broadcast"],
                   [ok |-> TRUE, op |-> "BOOTREQUEST", xid |-> x, mt |-> t,
                    yiaddr |-> "", siaddr |-> "", chaddr |-> m])) : m \in MACs, x \in Xids, t \in DHCPMsgTypes}

\* Other frames: IPv4 to a unicast, multicast or broadcast destination, IPv6,
\* and IPv6 that carries an IPv4 packet (gopacket decodes the inner layers too,
\* and packet.Layer returns the first layer of the type wherever it is).
IPv4Dsts == {"unicast", "multicast", "broadcast"}
IPv4Frames ==
    {Frame(m, gwHWAddr, Payload("IPv4", NoArp, IPv4(d, "valid"), NoDHCP)) : m \in MACs, d \in IPv4Dsts}
IPv6Frames ==
    {Frame(m, gwHWAddr, Payload("IPv6", NoArp, NoIPv4, NoDHCP)) : m \in MACs}
    \cup {Frame(m, gwHWAddr, Payload("IPv6", NoArp, IPv4("unicast", "valid"), NoDHCP)) : m \in MACs}

\* What w.ifce.Read returns on a tap device, and on a tun device.
TapFrames == ArpFrames \cup DHCPFrames \cup IPv4Frames \cup IPv6Frames
TunPackets == {Frame("", "", Payload("IPv4", NoArp, IPv4(d, "valid"), NoDHCP)) : d \in IPv4Dsts}

\* The payloads of the binary messages the server sends: an IPv4 packet, with
\* the header checksum valid or not, or bytes that do not parse as IPv4.
IPv4Sums == {"valid", "invalid"}
WsPayloads == {Payload("IPv4", NoArp, IPv4("unicast", c), NoDHCP) : c \in IPv4Sums}
              \cup {Payload("junk", NoArp, NoIPv4, NoDHCP)}

\* gopacket.SerializeLayers(buffer, opts, ethl, ipv4, gopacket.Payload(ipv4.Payload))
\* with opts.ComputeChecksums: the IPv4 header is written from the decoded
\* layer and its checksum field is computed anew.
SerializeLayers(src, dst, ipv4) ==
    [src |-> src, dst |-> dst,
     payload |-> [etype |-> "IPv4", arp |-> NoArp, ipv4 |-> [ipv4 EXCEPT !.sum = "valid"], dhcp |-> NoDHCP]]

\* The configurations the server answers getConfig with.
LeaseIPs == {"ip1", "ip2"}
NoIfce == [IP |-> "", GWIP |-> "", localHWAddr |-> ""]

\* ----------------------------------------------------- client: responders
\* handleArp: no write for an ARP that is not a request; for a request a reply
\* from the gateway MAC that claims the requested address, whatever it is.
handleArpFixedSender(f) ==
    IF f.payload.arp.op # "request" THEN [write |-> FALSE, frame |-> NoFrame]
    ELSE [write |-> TRUE,
          frame |-> Frame(gwHWAddr, f.src,
                Payload("ARP", [ok |-> TRUE, op |-> "reply", sha |-> gwHWAddr, spa |-> "gwip",
                                tha |-> f.payload.arp.sha, tpa |-> f.payload.arp.spa],
                        NoIPv4, NoDHCP))]

handleArp(f) ==
    IF f.payload.arp.op # "request" THEN [write |-> FALSE, frame |-> NoFrame]
    ELSE [write |-> TRUE,
          frame |-> Frame(gwHWAddr, f.src,
                Payload("ARP", [ok |-> TRUE, op |-> "reply", sha |-> gwHWAddr, spa |-> f.payload.arp.tpa,
                                tha |-> f.payload.arp.sha, tpa |-> f.payload.arp.spa],
                        NoIPv4, NoDHCP))]

\* The message type handleDHCP puts in its reply: OFFER for DISCOVER, ACK for
\* REQUEST; for every other type (RELEASE included, after its warning) and for
\* no message type option the reply has no options at all.
ReplyMsgType(mt) ==
    CASE mt = "DISCOVER" -> "OFFER"
      [] mt = "REQUEST" -> "ACK"
      [] OTHER -> ""

\* handleDHCP: v.Data[0] of a message type option with no data is an index out
\* of range (a panic); otherwise a reply is built and written, whatever the
\* message type.
handleDHCP(f, ifc) ==
    IF f.payload.dhcp.mt = "empty" THEN [crash |-> TRUE, frame |-> NoFrame]
    ELSE [crash |-> FALSE,
          frame |-> Frame(gwHWAddr, BroadcastMAC,
                Payload("IPv4", NoArp, [ok |-> TRUE, dst |-> "broadcast"],
                        [ok |-> TRUE, op |-> "BOOTREPLY", xid |-> f.payload.dhcp.xid,
                         mt |-> ReplyMsgType(f.payload.dhcp.mt),
                         yiaddr |-> ifc.IP, siaddr |-> ifc.GWIP, chaddr |-> f.src]))]

\* What processNetPacket does with a frame read from a tap device.
Classify(f) ==
    CASE f.payload.arp.ok -> "arp"
      [] f.payload.dhcp.ok -> "dhcp"
      [] ~f.payload.ipv4.ok \/ f.payload.ipv4.dst = "multicast" -> "skip"
      [] OTHER -> "forward"

\* websocket.IsCloseError(err, websocket.CloseNormalClosure): true of a
\* *CloseError with code 1000 only.  WriteMessage returns ErrCloseSent after a
\* close message was written, which is no *CloseError.
WsReadErrors == {"closeNormal", "closeAbnormal", "netError"}
WsWriteErrors == {"closeSent", "netError"}
IsCloseNormal(err) == err = "closeNormal"

\* The client before Start, and the values its variables have in the
\* specifications that have no client.
InitClient ==
    /\ ifce = NoIfce
    /\ cpc = "new"
    /\ npc = "off"
    /\ nfrm = NoFrame
    /\ nout = NoFrame
    /\ nerr = ""
    /\ wpc = "off"
    /\ wpkt = NoPayload
    /\ wout = NoFrame
    /\ werr = ""
    /\ osReady = FALSE
    /\ spc = "idle"
    /\ wsState = "open"
    /\ cproc = "running"

NoClient == isTap = FALSE /\ InitClient
NoRoutes == routeIn = [routes |-> <<>>, gw |-> <<>>, built |-> FALSE] /\ routeOut = <<>>
NoLock == lock = 0 /\ lpc = <<>>
NoBuf == bmode = "" /\ bpkt = <<>> /\ bn = 0 /\ bout = <<>> /\ bpc = ""

\* --------------------------------------------------------------- SpecIPPam
NoCall == [op |-> "", ip |-> EmptyStr, data |-> NilData, ret |-> EmptyStr, retdata |-> NilData,
           userinfo |-> NilUser, err |-> ""]

InitIPPam ==
    /\ \E ip \in PrefixIPs, ones \in PrefixOnes : ipam = NewIPPamFields(ip, ones)
    /\ allocations = NewIPPamAllocations(ipam)
    /\ gwIP = IPString(inc(ipam.net))
    /\ call = NoCall
    /\ ncalls = 0
    /\ gwRes = [reserved |-> FALSE, released |-> FALSE]
    /\ InitTasks
    /\ NoClient /\ NoRoutes /\ NoLock /\ NoBuf

CallAcquireIP ==
    /\ proc = "running"
    /\ ncalls < MaxCalls
    /\ \E data \in Data :
        LET r == AcquireIP(allocations, data)
        IN  /\ allocations' = r.allocations
            /\ call' = [NoCall EXCEPT !.op = "AcquireIP", !.data = data, !.ret = r.ip, !.err = r.err]
    /\ ncalls' = ncalls + 1
    /\ UNCHANGED <<otherVars, ipam, gwIP, gwRes, handlerVars, readerVars, proc>>

CallAcquireSpecificIP ==
    /\ proc = "running"
    /\ ncalls < MaxCalls
    /\ \E ip \in IPArgs :
        LET r == AcquireSpecificIP(allocations, ip, Sentinel)
        IN  /\ allocations' = r.allocations
            /\ call' = [NoCall EXCEPT !.op = "AcquireSpecificIP", !.ip = ip, !.err = r.err]
            /\ gwRes' = IF ip = gwIP /\ r.err = "" THEN [gwRes EXCEPT !.reserved = TRUE] ELSE gwRes
    /\ ncalls' = ncalls + 1
    /\ UNCHANGED <<otherVars, ipam, gwIP, handlerVars, readerVars, proc>>

CallSetIPActiveWithUserInfo ==
    /\ proc = "running"
    /\ ncalls < MaxCalls
    /\ \E ip \in IPArgs :
        LET r == SetIPActiveWithUserInfo(allocations, ip, "user", "host")
        IN  /\ allocations' = r.allocations
            /\ call' = [NoCall EXCEPT !.op = "SetIPActiveWithUserInfo", !.ip = ip, !.err = r.err]
    /\ ncalls' = ncalls + 1
    /\ UNCHANGED <<otherVars, ipam, gwIP, gwRes, handlerVars, readerVars, proc>>

CallGetData ==
    /\ proc = "running"
    /\ ncalls < MaxCalls
    /\ \E ip \in IPArgs :
        LET r == GetData(allocations, ip)
        IN  call' = [NoCall EXCEPT !.op = "GetData", !.ip = ip, !.retdata = r.data, !.err = r.err]
    /\ ncalls' = ncalls + 1
    /\ UNCHANGED <<otherVars, ipam, allocations, gwIP, gwRes, handlerVars, readerVars, proc>>

CallReleaseIP ==
    /\ proc = "running"
    /\ ncalls < MaxCalls
    /\ \E ip \in IPArgs :
        LET r == ReleaseIP(allocations, ip)
        IN  /\ allocations' = r.allocations
            /\ call' = [NoCall EXCEPT !.op = "ReleaseIP", !.ip = ip, !.err = r.err]
            /\ gwRes' = IF ip = gwIP /\ r.err = "" /\ gwRes.reserved
                        THEN [gwRes EXCEPT !.released = TRUE] ELSE gwRes
    /\ ncalls' = ncalls + 1
    /\ UNCHANGED <<otherVars, ipam, gwIP, handlerVars, readerVars, proc>>

\* A caller of GetUserinfo; the panic of the nil dereference ends the process.
CallGetUserinfo ==
    /\ proc = "running"
    /\ ncalls < MaxCalls
    /\ \E ip \in IPArgs :
        LET r == GetUserinfo(allocations, ip)
        IN  /\ call' = [NoCall EXCEPT !.op = "GetUserinfo", !.ip = ip, !.userinfo = r.userinfo,
                                      !.err = IF r.crash THEN "panic" ELSE r.err]
            /\ proc' = IF r.crash THEN "crashed" ELSE proc
    /\ ncalls' = ncalls + 1
    /\ UNCHANGED <<otherVars, ipam, allocations, gwIP, gwRes, handlerVars, readerVars>>

NextIPPam ==
    \/ CallAcquireIP
    \/ CallAcquireSpecificIP
    \/ CallSetIPActiveWithUserInfo
    \/ CallGetData
    \/ CallReleaseIP

vars == <<ipam, allocations, gwIP, call, ncalls, gwRes, hpc, hip, hrel, hcfg, rpc, rpkt, rws, proc,
          nrecv, clientVars, osReady, routeVars, lockVars, bufVars>>

SpecIPPam == InitIPPam /\ [][NextIPPam]_vars

\* SpecIPPam with callers of GetUserinfo as well.
NextUserinfo ==
    \/ NextIPPam
    \/ CallGetUserinfo

SpecUserinfo == InitIPPam /\ [][NextUserinfo]_vars

\* ------------------------------------------------------------------ server
\* NewWebTunnelServer: NewIPPam(clientNetPrefix), then the gateway address is
\* reserved with the empty struct as its data.  A gwIP that AcquireSpecificIP
\* refuses makes NewWebTunnelServer fail: there is then no server.
GwChoices == {IPString(inc(ipam.net)), IPString(inc(inc(ipam.net)))}

Init ==
    /\ \E ip \in PrefixIPs : ipam = NewIPPamFields(ip, AddrBits - ServerHostBits)
    /\ gwIP \in GwChoices
    /\ AcquireSpecificIP(NewIPPamAllocations(ipam), gwIP, Sentinel).err = ""
    /\ allocations = AcquireSpecificIP(NewIPPamAllocations(ipam), gwIP, Sentinel).allocations
    /\ call = NoCall
    /\ ncalls = 0
    /\ gwRes = [reserved |-> TRUE, released |-> FALSE]
    /\ InitTasks
    /\ NoClient /\ NoRoutes /\ NoLock /\ NoBuf

Running == proc = "running"

\* wsEndpoint has acquired an address and no ReleaseIP of it has succeeded.
Holding(h) == hip[h] # EmptyStr /\ hrel[h] = 0

\* wsEndpoint up to its read loop: upgrader.Upgrade, then r.ipam.AcquireIP(conn);
\* on an error of either it returns.
HAcquire(h) ==
    /\ Running
    /\ hpc[h] = "idle"
    /\ \E upgraded \in BOOLEAN :
        IF ~upgraded
        THEN /\ hpc' = [hpc EXCEPT ![h] = "done"]
             /\ UNCHANGED <<allocations, hip>>
        ELSE LET r == AcquireIP(allocations, ConnData(h))
             IN  /\ allocations' = r.allocations
                 /\ hip' = [hip EXCEPT ![h] = r.ip]
                 /\ hpc' = [hpc EXCEPT ![h] = IF r.err = "" THEN "read" ELSE "done"]
    /\ UNCHANGED <<otherVars, ipam, gwIP, apiVars, hrel, hcfg, readerVars, proc>>

\* What conn.ReadMessage returns: an error (a normal close, an abnormal close,
\* any other read error), a text message (getConfig or another), a binary one.
ReadErrors == {"closeNormal", "closeAbnormal", "readError"}
ReadResults == ReadErrors \cup {"getConfig", "text", "binary"}

\* One turn of the read loop of wsEndpoint.  A read error leads to ReleaseIP.
\* getConfig is answered with conn.WriteJSON(cfg): on an error of the write
\* wsEndpoint returns.  A binary message is written to the tunnel: on an error
\* of r.ifce.Write wsEndpoint sends the error on r.Error.
HRead(h) ==
    /\ Running
    /\ hpc[h] = "read"
    /\ \E m \in ReadResults, written \in BOOLEAN :
        /\ hpc' = [hpc EXCEPT ![h] =
                CASE m \in ReadErrors -> "release"
                  [] m = "getConfig" -> IF written THEN "read" ELSE "done"
                  [] m = "binary" -> IF written THEN "read" ELSE "sendErr"
                  [] OTHER -> "read"]
        /\ hcfg' = [hcfg EXCEPT ![h] = IF m = "getConfig" /\ written THEN TRUE ELSE @]
    /\ UNCHANGED <<otherVars, ipam, allocations, gwIP, apiVars, hip, hrel, readerVars, proc>>

\* r.ipam.ReleaseIP(ip) after a read error; wsEndpoint then returns.
HReleaseSkipped(h) ==
    /\ Running
    /\ hpc[h] = "release"
    /\ hpc' = [hpc EXCEPT ![h] = "return"]
    /\ UNCHANGED <<otherVars, ipam, allocations, gwIP, apiVars, hip, hrel, hcfg, readerVars, proc>>

HRelease(h) ==
    /\ Running
    /\ hpc[h] = "release"
    /\ LET r == ReleaseIP(allocations, hip[h])
       IN  /\ allocations' = r.allocations
           /\ hrel' = [hrel EXCEPT ![h] = IF r.err = "" THEN @ + 1 ELSE @]
    /\ hpc' = [hpc EXCEPT ![h] = "return"]
    /\ UNCHANGED <<otherVars, ipam, gwIP, apiVars, hip, hcfg, readerVars, proc>>

\* The return of wsEndpoint after ReleaseIP: the deferred conn.Close() runs.
\* (On its other returns the connection is closed in the step that returns.)
HReturn(h) ==
    /\ Running
    /\ hpc[h] = "return"
    /\ hpc' = [hpc EXCEPT ![h] = "done"]
    /\ UNCHANGED <<otherVars, ipam, allocations, gwIP, apiVars, hip, hrel, hcfg, readerVars, proc>>

\* The destinations of the packets read from the tunnel: the network address,
\* the NConns + 2 addresses after it (the gateway and the addresses the
\* connections are given), the broadcast address and the address after it.
RECURSIVE Following(_, _)
Following(ip, n) == IF n = 0 THEN {} ELSE {inc(ip)} \cup Following(inc(ip), n - 1)

PktDsts == {ipam.net, ipam.bcast, inc(ipam.bcast)} \cup Following(ipam.net, NConns + 2)

\* The packets r.ifce.Read returns: one that does not parse as IPv4, or an IPv4
\* packet.
Pkts == {[ok |-> FALSE, dst |-> EmptyStr]} \cup {[ok |-> TRUE, dst |-> IPString(ip)] : ip \in PktDsts}

\* r.ifce.Read(pkt): on an error processTUNPacket sends it on r.Error.
RRead ==
    /\ Running
    /\ rpc = "read"
    /\ \/ /\ rpc' = "sendErr"
          /\ UNCHANGED <<rpkt, rws>>
       \/ \E p \in Pkts :
            /\ rpkt' = p
            /\ rpc' = "lookup"
            /\ UNCHANGED rws
    /\ UNCHANGED <<otherVars, ipam, allocations, gwIP, apiVars, handlerVars, proc>>

\* ip.DstIP of a packet with no IPv4 layer is a nil dereference; GetData of
\* the destination; an error drops the packet; data.(*websocket.Conn) of
\* anything but a connection panics.  A panic ends the process.
RLookup ==
    /\ Running
    /\ rpc = "lookup"
    /\ IF ~rpkt.ok
       THEN /\ proc' = "crashed"
            /\ UNCHANGED <<rpc, rpkt, rws>>
       ELSE LET r == GetData(allocations, rpkt.dst)
            IN  IF r.err # ""
                THEN /\ rpc' = "read"
                     /\ rpkt' = NoPkt
                     /\ UNCHANGED <<rws, proc>>
                ELSE IF r.data.kind # "conn"
                THEN /\ proc' = "crashed"
                     /\ UNCHANGED <<rpc, rpkt, rws>>
                ELSE /\ rpc' = "write"
                     /\ rws' = r.data.id
                     /\ UNCHANGED <<rpkt, proc>>
    /\ UNCHANGED <<otherVars, ipam, allocations, gwIP, apiVars, handlerVars>>

\* ws.WriteMessage(websocket.BinaryMessage, pkt): an error is logged and the
\* next packet is read.
RWrite ==
    /\ Running
    /\ rpc = "write"
    /\ rpc' = "read"
    /\ rpkt' = NoPkt
    /\ rws' = 0
    /\ UNCHANGED <<otherVars, ipam, allocations, gwIP, apiVars, handlerVars, proc>>

\* The receiver of r.Error takes one value from a task blocked in its send:
\* wsEndpoint then returns; processTUNPacket returns and its deferred function
\* sends nil, after which it has ended.  The receiver goes on receiving, or
\* exits the process as the server's main does.
ErrorRecv ==
    /\ Running
    /\ \/ \E h \in Conns :
            /\ hpc[h] = "sendErr"
            /\ hpc' = [hpc EXCEPT ![h] = "done"]
            /\ UNCHANGED <<hip, hrel, hcfg, readerVars>>
       \/ /\ rpc \in {"sendErr", "sendNil"}
          /\ rpc' = IF rpc = "sendErr" THEN "sendNil" ELSE "done"
          /\ UNCHANGED <<handlerVars, rpkt, rws>>
    /\ \E exit \in BOOLEAN : proc' = IF exit THEN "exited" ELSE proc
    /\ nrecv' = nrecv + 1
    /\ UNCHANGED <<restVars, ipam, allocations, gwIP, apiVars>>

\* A caller of SetIPActiveWithUserInfo for the address of a connection whose
\* wsEndpoint is in its read loop.  wsEndpoint makes no such call: the action
\* is part of SpecActive only.
Activate(h) ==
    /\ Running
    /\ hpc[h] = "read"
    /\ allocations[hip[h]].ipStatus = ipStatusRequested
    /\ allocations' = SetIPActiveWithUserInfo(allocations, hip[h], "user", "host").allocations
    /\ UNCHANGED <<otherVars, ipam, gwIP, apiVars, handlerVars, readerVars, proc>>

Next ==
    \/ \E h \in Conns : HAcquire(h)
    \/ \E h \in Conns : HRead(h)
    \/ \E h \in Conns : HRelease(h)
    \/ \E h \in Conns : HReturn(h)
    \/ RRead
    \/ RLookup
    \/ ErrorRecv

\* The server as it is: no address ever becomes InUse with a connection as its
\* data, so processTUNPacket never comes to its WriteMessage (RWrite).
Spec == Init /\ [][Next]_vars

NextActive ==
    \/ \E h \in Conns : HAcquire(h)
    \/ \E h \in Conns : HRead(h)
    \/ \E h \in Conns : HRelease(h)
    \/ \E h \in Conns : HReturn(h)
    \/ \E h \in Conns : Activate(h)
    \/ RRead
    \/ RLookup
    \/ RWrite
    \/ ErrorRecv

\* The server with its leases activated by SetIPActiveWithUserInfo.
SpecActive == Init /\ [][NextActive]_vars

\* ------------------------------------------------------------------ client
\* The variables of the server and of the other specifications.
notClient == <<ipam, allocations, gwIP, apiVars, handlerVars, readerVars, proc, nrecv, routeVars, lockVars,
               bufVars, osReady>>

\* The server side where there is no server: an IPPam nobody calls.
NoServer ==
    /\ ipam = NewIPPamFields(<<0, 1>>, AddrBits - 1)
    /\ allocations = NewIPPamAllocations(ipam)
    /\ gwIP = IPString(inc(ipam.net))
    /\ call = NoCall
    /\ ncalls = 0
    /\ gwRes = [reserved |-> FALSE, released |-> FALSE]
    /\ InitTasks

\* NewWebtunnelClient has returned a client for a tap or a tun device.
InitClientSpec ==
    /\ isTap \in BOOLEAN
    /\ InitClient
    /\ NoServer /\ NoRoutes /\ NoLock /\ NoBuf

CRunning == cproc = "running"

\* Start calls configureInterface, which begins by writing getConfig.
CStart ==
    /\ CRunning
    /\ cpc = "new"
    /\ cpc' = "getConfig"
    /\ UNCHANGED <<isTap, ifce, npc, nfrm, nout, nerr, wpc, wpkt, wout, werr, spc, wsState, cproc, notClient>>

\* configureInterface from the end of its WriteMessage: ReadJSON of a
\* configuration whose routes parse, the Interface fields, userInitFunc; then
\* Start starts the two tasks.  On any error Start returns it and the client's
\* main exits.
CConfigure ==
    /\ CRunning
    /\ cpc = "getConfig"
    /\ \E wrote \in BOOLEAN, read \in BOOLEAN, inited \in BOOLEAN, ip \in LeaseIPs :
        /\ ifce' = IF wrote /\ read THEN [IP |-> ip, GWIP |-> "gwip", localHWAddr |-> ""] ELSE ifce
        /\ IF wrote /\ read /\ inited
           THEN /\ cpc' = "running"
                /\ npc' = "read"
                /\ wpc' = "wait"
                /\ UNCHANGED cproc
           ELSE /\ cpc' = "failed"
                /\ cproc' = "exited"
                /\ UNCHANGED <<npc, wpc>>
    /\ UNCHANGED <<isTap, nfrm, nout, nerr, wpkt, wout, werr, spc, wsState, notClient>>

\* One turn of processNetPacket up to its write: w.ifce.Read, then on a tap
\* device the ARP and DHCP responders and the IPv4 unicast filter.
NRead ==
    /\ CRunning
    /\ npc = "read"
    /\ \/ /\ npc' = "sendErr"
          /\ nerr' = "readError"
          /\ UNCHANGED <<nfrm, nout, cproc>>
       \/ \E f \in (IF isTap THEN TapFrames ELSE TunPackets) :
            LET c == IF isTap THEN Classify(f) ELSE "forward"
                a == handleArp(f)
                d == handleDHCP(f, ifce)
            IN  CASE c = "arp" /\ a.write ->
                        /\ npc' = "devWrite"
                        /\ nfrm' = f
                        /\ nout' = a.frame
                        /\ UNCHANGED <<nerr, cproc>>
                  [] c = "dhcp" /\ d.crash ->
                        /\ cproc' = "crashed"
                        /\ nfrm' = f
                        /\ UNCHANGED <<npc, nout, nerr>>
                  [] c = "dhcp" /\ ~d.crash ->
                        /\ npc' = "devWrite"
                        /\ nfrm' = f
                        /\ nout' = d.frame
                        /\ UNCHANGED <<nerr, cproc>>
                  [] c = "forward" ->
                        /\ npc' = "wsWrite"
                        /\ nfrm' = f
                        /\ nout' = Frame("", "", f.payload)
                        /\ UNCHANGED <<nerr, cproc>>
                  [] OTHER ->
                        /\ npc' = "skipped"
                        /\ nfrm' = f
                        /\ UNCHANGED <<nout, nerr, cproc>>
    /\ UNCHANGED <<isTap, ifce, cpc, wpc, wpkt, wout, werr, spc, wsState, notClient>>

\* The continue of processNetPacket after a frame that causes no write.
NSkip ==
    /\ CRunning
    /\ npc = "skipped"
    /\ npc' = "read"
    /\ nfrm' = NoFrame
    /\ UNCHANGED <<isTap, ifce, cpc, nout, nerr, wpc, wpkt, wout, werr, spc, wsState, cproc, notClient>>

\* The end of the w.ifce.Write of handleArp or handleDHCP: an error is sent on
\* w.Error and the loop goes on.
NDevWriteEnd ==
    /\ CRunning
    /\ npc = "devWrite"
    /\ \E written \in BOOLEAN :
        /\ npc' = IF written THEN "read" ELSE "sendErrCont"
        /\ nerr' = IF written THEN "" ELSE "writeError"
    /\ nfrm' = NoFrame
    /\ nout' = NoFrame
    /\ UNCHANGED <<isTap, ifce, cpc, wpc, wpkt, wout, werr, spc, wsState, cproc, notClient>>

\* The end of w.wsconn.WriteMessage(BinaryMessage, oPkt).  After a close
\* message was written on the connection WriteMessage returns ErrCloseSent.
\* A write that overlaps the write of Stop may panic (gorilla: concurrent
\* write to websocket connection).
NWsWriteEnd ==
    /\ CRunning
    /\ npc = "wsWrite"
    /\ \/ /\ wsState = "open"
          /\ npc' = "read"
          /\ nfrm' = NoFrame
          /\ nout' = NoFrame
          /\ UNCHANGED <<nerr, cproc>>
       \/ \E e \in WsWriteErrors :
            /\ e = "closeSent" <=> wsState # "open"
            /\ npc' = IF IsCloseNormal(e) THEN "done" ELSE "sendErr"
            /\ nerr' = IF IsCloseNormal(e) THEN "" ELSE e
            /\ nfrm' = NoFrame
            /\ nout' = NoFrame
            /\ UNCHANGED cproc
       \/ /\ spc = "closeWrite"
          /\ cproc' = "crashed"
          /\ UNCHANGED <<npc, nfrm, nout, nerr>>
    /\ UNCHANGED <<isTap, ifce, cpc, wpc, wpkt, wout, werr, spc, wsState, notClient>>

\* The operating system gives the interface its address (by DHCP on a tap
\* device, by the commands of userInitFunc on a tun device): from then on
\* wc.IsConfigured(w.ifce.Name(), w.ifce.IP.String()) is true.
OSConfigure ==
    /\ CRunning
    /\ cpc = "running"
    /\ ~osReady
    /\ osReady' = TRUE
    /\ UNCHANGED <<clientVars, ipam, allocations, gwIP, apiVars, handlerVars, readerVars, proc, nrecv,
                   routeVars, lockVars, bufVars>>

\* processWSPacket leaves its wait loop when wc.IsConfigured is true, and reads
\* the hardware address of the interface.
WReady ==
    /\ CRunning
    /\ wpc = "wait"
    /\ osReady
    /\ \E m \in MACs : ifce' = [ifce EXCEPT !.localHWAddr = m]
    /\ wpc' = "read"
    /\ UNCHANGED <<isTap, cpc, npc, nfrm, nout, nerr, wpkt, wout, werr, spc, wsState, cproc, notClient>>

\* One turn of processWSPacket up to its write: ReadMessage returns an error
\* (the normal close only in answer to the close Stop has sent; only an error
\* once the connection is closed), a message that is not binary, or a binary
\* one.  On a tap device packet.Layer(LayerTypeIPv4).(*layers.IPv4) panics for
\* a payload with no IPv4 layer; otherwise the packet gets an Ethernet header.
WRead ==
    /\ CRunning
    /\ wpc = "read"
    /\ \/ \E e \in WsReadErrors :
            /\ e = "closeNormal" => wsState = "closeSent"
            /\ wpc' = IF IsCloseNormal(e) THEN "done" ELSE "sendErr"
            /\ werr' = IF IsCloseNormal(e) THEN "" ELSE e
            /\ UNCHANGED <<wpkt, wout, cproc>>
       \/ /\ wsState # "closed"
          /\ UNCHANGED <<wpc, wpkt, wout, werr, cproc>>
       \/ /\ wsState # "closed"
          /\ \E p \in WsPayloads :
                IF isTap /\ ~p.ipv4.ok
                THEN /\ cproc' = "crashed"
                     /\ wpkt' = p
                     /\ wout' = Frame("", "", p)
                     /\ UNCHANGED <<wpc, werr>>
                ELSE /\ wpc' = "devWrite"
                     /\ wpkt' = p
                     /\ wout' = IF isTap
                                THEN SerializeLayers(gwHWAddr, ifce.localHWAddr, p.ipv4)
                                ELSE Frame("", "", p)
                     /\ UNCHANGED <<werr, cproc>>
    /\ UNCHANGED <<isTap, ifce, cpc, npc, nfrm, nout, nerr, spc, wsState, notClient>>

\* The end of the w.ifce.Write of processWSPacket.
WDevWriteEnd ==
    /\ CRunning
    /\ wpc = "devWrite"
    /\ \E written \in BOOLEAN :
        /\ wpc' = IF written THEN "read" ELSE "sendErr"
        /\ werr' = IF written THEN "" ELSE "writeError"
    /\ wpkt' = NoPayload
    /\ wout' = NoFrame
    /\ UNCHANGED <<isTap, ifce, cpc, npc, nfrm, nout, nerr, spc, wsState, cproc, notClient>>

\* The client's main calls Stop (on a signal): Stop begins to write the close
\* message.
SStart ==
    /\ CRunning
    /\ cpc = "running"
    /\ spc = "idle"
    /\ spc' = "closeWrite"
    /\ UNCHANGED <<isTap, ifce, cpc, npc, nfrm, nout, nerr, wpc, wpkt, wout, werr, wsState, cproc, notClient>>

SCloseSentDrop ==
    /\ CRunning
    /\ spc = "closeWrite"
    /\ \/ /\ spc' = "sleep"
          /\ wsState' = "closeSent"
          /\ UNCHANGED cproc
       \/ /\ spc' = "done"
          /\ wsState' = "closed"
          /\ UNCHANGED cproc
       \/ /\ npc = "wsWrite"
          /\ cproc' = "crashed"
          /\ UNCHANGED <<spc, wsState>>
    /\ UNCHANGED <<isTap, ifce, cpc, npc, nfrm, nout, nerr, wpc, wpkt, wout, werr, notClient>>

\* The end of the WriteMessage(CloseMessage, ...) of Stop: on an error Stop
\* returns it (failed); otherwise it sleeps a second.
SCloseSent ==
    /\ CRunning
    /\ spc = "closeWrite"
    /\ \/ /\ spc' = "sleep"
          /\ wsState' = "closeSent"
          /\ UNCHANGED cproc
       \/ /\ spc' = "failed"
          /\ UNCHANGED <<wsState, cproc>>
       \/ /\ npc = "wsWrite"
          /\ cproc' = "crashed"
          /\ UNCHANGED <<spc, wsState>>
    /\ UNCHANGED <<isTap, ifce, cpc, npc, nfrm, nout, nerr, wpc, wpkt, wout, werr, notClient>>

\* w.wsconn.Close() after the sleep; Stop returns.
SClose ==
    /\ CRunning
    /\ spc = "sleep"
    /\ spc' = "done"
    /\ wsState' = "closed"
    /\ UNCHANGED <<isTap, ifce, cpc, npc, nfrm, nout, nerr, wpc, wpkt, wout, werr, cproc, notClient>>

\* The client's main: it receives one error from w.Error unless it has called
\* Stop, and exits (a receiver that goes on leaves the task to go on); after
\* Stop has returned (its result is not looked at) it exits.
ClientMain ==
    /\ CRunning
    /\ \/ /\ spc = "idle"
          /\ \/ /\ npc \in {"sendErr", "sendErrCont"}
                /\ npc' = IF npc = "sendErr" THEN "done" ELSE "read"
                /\ nerr' = ""
                /\ UNCHANGED <<wpc, werr>>
             \/ /\ wpc = "sendErr"
                /\ wpc' = "done"
                /\ werr' = ""
                /\ UNCHANGED <<npc, nerr>>
          /\ \E exit \in BOOLEAN : cproc' = IF exit THEN "exited" ELSE cproc
       \/ /\ spc \in {"done", "failed"}
          /\ cproc' = "exited"
          /\ UNCHANGED <<npc, nerr, wpc, werr>>
    /\ UNCHANGED <<isTap, ifce, cpc, nfrm, nout, wpkt, wout, spc, wsState, notClient>>

NextClient ==
    \/ CStart
    \/ CConfigure
    \/ NRead
    \/ NSkip
    \/ NDevWriteEnd
    \/ NWsWriteEnd
    \/ OSConfigure
    \/ WReady
    \/ WRead
    \/ WDevWriteEnd
    \/ SStart
    \/ SCloseSent
    \/ SClose
    \/ ClientMain

SpecClient == InitClientSpec /\ [][NextClient]_vars

\* ------------------------------------------------- client and its handler
\* The client together with the wsEndpoint that serves its connection.
ClientConn == CHOOSE h \in Conns : \A g \in Conns : h <= g

InitStop ==
    /\ \E ip \in PrefixIPs : ipam = NewIPPamFields(ip, AddrBits - ServerHostBits)
    /\ gwIP \in GwChoices
    /\ AcquireSpecificIP(NewIPPamAllocations(ipam), gwIP, Sentinel).err = ""
    /\ allocations = AcquireSpecificIP(NewIPPamAllocations(ipam), gwIP, Sentinel).allocations
    /\ call = NoCall
    /\ ncalls = 0
    /\ gwRes = [reserved |-> TRUE, released |-> FALSE]
    /\ InitTasks
    /\ isTap \in BOOLEAN
    /\ InitClient
    /\ NoRoutes /\ NoLock /\ NoBuf

NextStop ==
    \/ NextClient
    \/ HAcquire(ClientConn)
    \/ HRead(ClientConn)
    \/ HRelease(ClientConn)
    \/ HReturn(ClientConn)
    \/ ErrorRecv

SpecStop == InitStop /\ [][NextStop]_vars

\* ------------------------------------------------ ClasslessStaticRoute option
\* An IPv4 address here is four bytes of eight bits, as in the source.
Oct(n) == n % Pow2(OctetBits)
Mask4(ip, ones) ==
    [j \in 1..IPv4Len |->
        LET kept == Max(0, Min(OctetBits, ones - OctetBits * (j - 1)))
        IN  ip[j] - (ip[j] % Pow2(OctetBits - kept))]

\* The entries of w.ifce.RoutePrefix: what net.ParseCIDR returns for a prefix
\* (the network address and the length of the mask).
RouteIPs == {<<172, 16, 0, 1>>, <<10, 129, 255, 131>>}
RouteOnes == 0 .. (IPv4Len * OctetBits)
RoutePrefixes == {[IP |-> Mask4(ip, ones), ones |-> ones] : ip \in RouteIPs, ones \in RouteOnes}
RECURSIVE RouteLists(_)
RouteLists(n) ==
    IF n = 0 THEN {<<>>}
    ELSE RouteLists(n - 1) \cup {Append(l, p) : l \in {x \in RouteLists(n - 1) : Len(x) = n - 1}, p \in RoutePrefixes}
GWIPs == {<<10, 0, 0, 1>>}

\* One turn of the loop of buildDHCPopts over w.ifce.RoutePrefix: the size of
\* the mask as a byte, the first b bytes of the network where b is the size
\* divided by eight and rounded up, the gateway.
routeBytesFloor(n, gw) ==
    LET b == n.ones \div OctetBits
    IN  <<Oct(n.ones)>> \o SubSeq(n.IP, 1, b) \o gw

routeBytes(n, gw) ==
    LET b == (n.ones \div OctetBits) + (IF n.ones % OctetBits > 0 THEN 1 ELSE 0)
    IN  <<Oct(n.ones)>> \o SubSeq(n.IP, 1, b) \o gw

RECURSIVE buildRoute(_, _)
buildRoute(routes, gw) ==
    IF routes = <<>> THEN <<>>
    ELSE routeBytes(Head(routes), gw) \o buildRoute(Tail(routes), gw)

InitRoutes ==
    /\ routeIn \in {[routes |-> l, gw |-> g, built |-> FALSE] : l \in RouteLists(MaxRoutes), g \in GWIPs}
    /\ routeOut = <<>>
    /\ isTap = TRUE /\ InitClient
    /\ NoServer /\ NoLock /\ NoBuf

\* buildDHCPopts builds the option from the route list and the gateway.
BuildRoutes ==
    /\ ~routeIn.built
    /\ routeOut' = buildRoute(routeIn.routes, routeIn.gw)
    /\ routeIn' = [routeIn EXCEPT !.built = TRUE]
    /\ UNCHANGED <<clientVars, lockVars, bufVars, osReady, nrecv, ipam, allocations, gwIP, apiVars,
                   handlerVars, readerVars, proc>>

NextRoutes == BuildRoutes

SpecRoutes == InitRoutes /\ [][NextRoutes]_vars

\* ------------------------------------------------------------- IPPam lock
\* Tasks that call the public IPPam methods concurrently.
LTasks == 1 .. NTasks
LockOps == {"AcquireIP", "AcquireSpecificIP", "SetIPActiveWithUserInfo", "GetData",
            "GetUserinfo", "ReleaseIP", "DumpAllocations", "GetAllocatedCount"}
\* The methods that call i.lock.Lock() (with a deferred Unlock) before they
\* touch the map: all but GetAllocatedCount.
Locking(op) == op # "GetAllocatedCount"
\* The map a method leaves: AcquireIP, AcquireSpecificIP and ReleaseIP insert
\* into the map or delete from it unless they fail; SetIPActiveWithUserInfo
\* writes fields of the entry it has looked up; the others only read.
LEffect(op, ip) ==
    CASE op = "AcquireIP" -> AcquireIP(allocations, ConnData(1)).allocations
      [] op = "AcquireSpecificIP" -> AcquireSpecificIP(allocations, ip, Sentinel).allocations
      [] op = "SetIPActiveWithUserInfo" ->
            SetIPActiveWithUserInfo(allocations, ip, "user", "host").allocations
      [] op = "ReleaseIP" -> ReleaseIP(allocations, ip).allocations
      [] OTHER -> allocations
\* The method inserts or deletes a key.
Writes(op, ip) == DOMAIN LEffect(op, ip) # DOMAIN allocations
HasIPArg(op) == op \in {"AcquireSpecificIP", "SetIPActiveWithUserInfo", "GetData", "GetUserinfo", "ReleaseIP"}

LockIPs == {IPString(ipam.net), IPString(inc(ipam.net)), IPString(inc(inc(ipam.net))),
            IPString(inc(ipam.bcast))}
LIdle(n) == [op |-> "", ph |-> "idle", ip |-> EmptyStr, n |-> n]

InitLock ==
    /\ ipam = NewIPPamFields(<<0, 1>>, AddrBits - MaxHostBits)
    /\ allocations = NewIPPamAllocations(ipam)
    /\ gwIP = IPString(inc(ipam.net))
    /\ call = NoCall
    /\ ncalls = 0
    /\ gwRes = [reserved |-> FALSE, released |-> FALSE]
    /\ InitTasks
    /\ lock = 0
    /\ lpc = [t \in LTasks |-> LIdle(0)]
    /\ NoClient /\ NoRoutes /\ NoBuf

\* A task calls a method and comes to its access of the map: after Lock has
\* returned for the methods that lock (AcquireSpecificIP returns before it if
\* isValidIP fails), at once for GetAllocatedCount.
LCall(t) ==
    /\ Running
    /\ ncalls < MaxCalls
    /\ lpc[t].ph = "idle"
    /\ \E op \in LockOps, ip \in LockIPs :
        /\ HasIPArg(op) \/ ip = IPString(ipam.net)
        /\ IF op = "AcquireSpecificIP" /\ ~isValidIP(ip)
           THEN /\ ncalls' = ncalls + 1
                /\ UNCHANGED <<lock, lpc>>
           ELSE /\ Locking(op) => lock = 0
                /\ lock' = IF Locking(op) THEN t ELSE lock
                /\ lpc' = [lpc EXCEPT ![t] = [op |-> op, ph |-> "access",
                                              ip |-> IF HasIPArg(op) THEN ip ELSE EmptyStr,
                                              n |-> GetAllocatedCount(allocations)]]
                /\ UNCHANGED ncalls
    /\ UNCHANGED <<clientVars, routeVars, bufVars, osReady, nrecv, ipam, allocations, gwIP, call, gwRes, handlerVars, readerVars, proc>>

\* The method completes its access and returns (the deferred Unlock runs).
\* len(i.allocations) read while another task writes the map is a data race:
\* the count is that of the map before or after the write.
LReturn(t) ==
    /\ Running
    /\ lpc[t].ph = "access"
    /\ LET op == lpc[t].op
           ip == lpc[t].ip
       IN  /\ allocations' = LEffect(op, ip)
           /\ proc' = IF op = "GetUserinfo" /\ GetUserinfo(allocations, ip).crash THEN "crashed" ELSE proc
           /\ \E n \in {lpc[t].n, GetAllocatedCount(allocations)} :
                lpc' = [lpc EXCEPT ![t] = LIdle(IF op = "GetAllocatedCount" THEN n ELSE 0)]
    /\ lock' = IF lock = t THEN 0 ELSE lock
    /\ ncalls' = ncalls + 1
    /\ UNCHANGED <<clientVars, routeVars, bufVars, osReady, nrecv, ipam, gwIP, call, gwRes, handlerVars, readerVars>>

NextLock ==
    \/ \E t \in LTasks : LCall(t)
    \/ \E t \in LTasks : LReturn(t)

SpecLock == InitLock /\ [][NextLock]_vars

\* ------------------------------------------------------------ read buffer
\* The loops that read a device into the buffer pkt and write a binary message:
\* processTUNPacket of the server, processNetPacket on a tun and on a tap device.
BufModes == {"server", "tun", "tap"}
BufBytes == 1..2

\* pkt := make([]byte, 2048): all zero.
NewBuf == [i \in 1..BufSize |-> 0]

\* What a Read of the device returns: a packet of at least min bytes.
Packets(min) == UNION {[1..k -> BufBytes] : k \in min..BufSize}

\* Read(pkt) copies the packet to the beginning of the buffer and returns its
\* length; the bytes after it stay as they were.
ReadInto(buf, d) == [i \in 1..BufSize |-> IF i <= Len(d) THEN d[i] ELSE buf[i]]

\* The payload handed to WriteMessage: pkt (the server), oPkt = pkt (tun), or
\* the LayerPayload of the Ethernet layer decoded from pkt (tap).
oPkt(mode, buf) == IF mode = "tap" THEN SubSeq(buf, EthHdrLen + 1, Len(buf)) ELSE buf

notBuf == <<ipam, allocations, gwIP, apiVars, handlerVars, readerVars, proc, nrecv, clientVars, osReady,
            routeVars, lockVars>>

InitBuf ==
    /\ bmode \in BufModes
    /\ bpkt = NewBuf
    /\ bn = 0
    /\ bout = <<>>
    /\ bpc = "read"
    /\ NoServer /\ NoClient /\ NoRoutes /\ NoLock

\* One turn of the loop up to its write: Read, on an error the task ends; the
\* server drops a packet GetData has no connection for and a tap client a
\* frame it answers itself or filters out.
BRead ==
    /\ bpc = "read"
    /\ \/ /\ bpc' = "done"
          /\ UNCHANGED <<bpkt, bn, bout>>
       \/ \E d \in Packets(IF bmode = "tap" THEN EthHdrLen + 1 ELSE 1),
             forward \in (IF bmode = "tun" THEN {TRUE} ELSE BOOLEAN) :
            /\ bpkt' = ReadInto(bpkt, d)
            /\ bn' = Len(d)
            /\ IF forward
               THEN bpc' = "write" /\ bout' = oPkt(bmode, bpkt')
               ELSE UNCHANGED <<bpc, bout>>
    /\ UNCHANGED <<bmode, notBuf>>

\* The end of WriteMessage: the server goes on after an error, the client's
\* task ends.
BWriteEnd ==
    /\ bpc = "write"
    /\ \E written \in BOOLEAN :
        bpc' = IF written \/ bmode = "server" THEN "read" ELSE "done"
    /\ bout' = <<>>
    /\ UNCHANGED <<bmode, bpkt, bn, notBuf>>

NextBuf ==
    \/ BRead
    \/ BWriteEnd

SpecBuf == InitBuf /\ [][NextBuf]_vars

\* ------------------------------------------------------------------ claims
Num(ip) == ip[1] * ByteMod + ip[2]
NetBcast == {IPString(ipam.net), IPString(ipam.bcast)}

\* The addresses of the CIDR with no entry, and the numerically lowest of them.
FreeIPs(allocs) == {ip \in CidrIPs : IPString(ip) \notin DOMAIN allocs}
LowestFree(allocs) == CHOOSE a \in FreeIPs(allocs) : \A b \in FreeIPs(allocs) : Num(a) <= Num(b)

\* allocs with every free address below ip taken.
FillBelow(allocs, ip) ==
    LET below == {IPString(a) : a \in {b \in FreeIPs(allocs) : Num(b) < Num(ip)}}
    IN  [k \in DOMAIN allocs \cup below |->
            IF k \in DOMAIN allocs THEN allocs[k] ELSE ipData(ipStatusRequested, NilData, NilUser)]

\* C1: after NewIPPam and any sequence of calls, the network and the broadcast
\* address both have an entry, and no AcquireIP call has returned either.
C1_NetBcastReserved ==
    /\ NetBcast \subseteq DOMAIN allocations
    /\ (call.op = "AcquireIP" /\ call.err = "") => call.ret \notin NetBcast

\* A ReleaseIP of the network or broadcast address has been called.
C1_Witness == call.op = "ReleaseIP" /\ call.ip \in NetBcast

C4_GatewayNeverAcquired ==
    [][(gwRes.reserved /\ call'.op = "AcquireIP" /\ call'.err = "") => call'.ret # gwIP]_vars

\* C4 amended: once gwIP has been reserved with AcquireSpecificIP, no later
\* AcquireIP returns gwIP, as long as no ReleaseIP of gwIP has succeeded since.
C4_GatewayNotAcquiredUntilReleased ==
    [][(gwRes.reserved /\ ~gwRes.released /\ call'.op = "AcquireIP" /\ call'.err = "")
        => call'.ret # gwIP]_vars

\* AcquireIP has returned an address while gwIP was reserved and not released.
C4_Witness ==
    /\ gwRes.reserved
    /\ ~gwRes.released
    /\ call.op = "AcquireIP"
    /\ call.err = ""

\* C5: ReleaseIP of the network or broadcast address fails and leaves the map
\* as it is; of any other address with an entry it removes exactly that entry,
\* and AcquireIP returns the address again once the lower ones are taken; of
\* an address with no entry it fails and leaves the map as it is.
C5_ReleaseIP ==
    [][call'.op = "ReleaseIP" =>
        IF call'.ip \in NetBcast
        THEN /\ call'.err # ""
             /\ allocations' = allocations
        ELSE IF call'.ip \in DOMAIN allocations
        THEN /\ call'.err = ""
             /\ allocations' = MapDelete(allocations, call'.ip)
             /\ AcquireIP(FillBelow(allocations', ParseIP(call'.ip)), NilData).ip = call'.ip
        ELSE /\ call'.err # ""
             /\ allocations' = allocations]_vars

\* A ReleaseIP has removed an entry.
C5_Witness == call.op = "ReleaseIP" /\ call.err = ""

\* C3: no two connection handlers that have acquired an address and not yet
\* released it have the same address.
C3_UniqueLeases ==
    \A h1, h2 \in Conns : (h1 # h2 /\ Holding(h1) /\ Holding(h2)) => hip[h1] # hip[h2]

\* Two handlers are in their read loops, each with an address.
C3_Witness ==
    \E h1, h2 \in Conns : h1 # h2 /\ hpc[h1] = "read" /\ hpc[h2] = "read"

\* C6: a handler whose read fails releases exactly the address it acquired,
\* once, before it returns; and when one handler alone has acquired an address
\* and released it, the next AcquireIP returns that address.
C6_ReleaseOnReadError ==
    [][\A h \in Conns :
        /\ hrel'[h] <= 1
        /\ (hpc[h] = "release" /\ hpc'[h] # "release") =>
              /\ hpc'[h] = "return"
              /\ hip[h] \in DOMAIN allocations
              /\ allocations[hip[h]].data = ConnData(h)
              /\ allocations' = MapDelete(allocations, hip[h])
              /\ hrel[h] = 0 /\ hrel'[h] = 1
        /\ (hpc[h] = "return" /\ hpc'[h] # "return") => (hpc'[h] = "done" /\ hrel[h] = 1)
        /\ \A h2 \in Conns \ {h} :
              ( /\ hpc[h] = "done" /\ hrel[h] = 1
                /\ \A o \in Conns \ {h} : hip[o] = EmptyStr
                /\ hpc[h2] = "idle" /\ hpc'[h2] = "read" )
              => hip'[h2] = hip[h]]_vars

\* A handler has released its address and returned, and another handler has
\* been given that address.
C6_Witness ==
    \E h, h2 \in Conns :
        h # h2 /\ hpc[h] = "done" /\ hrel[h] = 1 /\ hpc[h2] = "read" /\ hip[h2] = hip[h]

\* C7: every address allocated to a connection belongs to a handler that is
\* still running.
C7_NoLeakedLease ==
    Running => \A k \in DOMAIN allocations :
        allocations[k].data.kind = "conn" => hpc[allocations[k].data.id] # "done"

\* C8: a packet whose destination is the address of a connected client that has
\* received its configuration is not dropped by the tunnel reader.
C8_PacketDelivered ==
    [][(rpc = "lookup" /\ rpc' = "read") =>
        ~\E h \in Conns : hpc[h] = "read" /\ hpc'[h] = "read" /\ hcfg[h] /\ hip[h] = rpkt.dst]_vars

ActiveClientLease(ip) ==
    /\ ip \in DOMAIN allocations
    /\ allocations[ip].ipStatus = ipStatusInUse
    /\ allocations[ip].data.kind = "conn"

\* C10: on an IPv4 packet whose destination is not the address of an active
\* client lease the tunnel reader writes to no WebSocket and does not crash.
C10_ReaderDropsAndGoesOn ==
    [][(rpc = "lookup" /\ rpkt.ok /\ ~ActiveClientLease(rpkt.dst)) =>
        (proc' # "crashed" /\ rpc' # "write")]_vars

\* C11: GetData returns the handle stored when the address was acquired if and
\* only if the address has an entry with status InUse, and fails for a
\* Requested entry and for no entry; the handle of an entry never changes while
\* the entry exists; and an entry goes from Requested to InUse only in a
\* successful SetIPActiveWithUserInfo call on its address.
C11_GetData ==
    [][/\ call'.op = "GetData" =>
            IF call'.ip \in DOMAIN allocations /\ allocations[call'.ip].ipStatus = ipStatusInUse
            THEN call'.err = "" /\ call'.retdata = allocations[call'.ip].data
            ELSE call'.err # ""
       /\ \A k \in DOMAIN allocations' \ DOMAIN allocations :
            \/ call'.op = "AcquireIP" /\ call'.ret = k /\ allocations'[k].data = call'.data
            \/ call'.op = "AcquireSpecificIP" /\ call'.ip = k /\ allocations'[k].data = Sentinel
       /\ \A k \in DOMAIN allocations \cap DOMAIN allocations' :
            /\ allocations'[k].data = allocations[k].data
            /\ (allocations[k].ipStatus = ipStatusRequested /\ allocations'[k].ipStatus = ipStatusInUse)
                 => (call'.op = "SetIPActiveWithUserInfo" /\ call'.ip = k /\ call'.err = "")]_vars

\* GetData has returned the connection stored by AcquireIP, after the address
\* was made active.
C11_Witness == call.op = "GetData" /\ call.err = "" /\ call.retdata.kind = "conn"

\* C12: a DISCOVER gets one reply OFFER and a REQUEST one reply ACK, both with
\* the xid of the request and the leased address as yiaddr; for a RELEASE no
\* frame is written to the device.
C12_DHCPReplies ==
    [][(npc = "read" /\ nfrm' # nfrm /\ nfrm'.payload.dhcp.ok) =>
        LET req == nfrm'.payload.dhcp
            rep == nout'.payload.dhcp
        IN  /\ req.mt \in {"DISCOVER", "REQUEST"} =>
                /\ npc' = "devWrite"
                /\ rep.ok /\ rep.op = "BOOTREPLY"
                /\ rep.mt = (IF req.mt = "DISCOVER" THEN "OFFER" ELSE "ACK")
                /\ rep.xid = req.xid
                /\ rep.yiaddr = ifce.IP
            /\ req.mt = "RELEASE" => npc' # "devWrite"]_vars

\* C13: on a tap device a frame is forwarded to the WebSocket only if it is an
\* IPv4 frame, not ARP, not DHCPv4, with a destination that is not multicast,
\* and what is sent is the frame without its Ethernet header.
C13_ForwardOnlyIPv4Unicast ==
    [][(isTap /\ npc = "read" /\ npc' = "wsWrite") =>
        /\ nfrm'.payload.etype = "IPv4"
        /\ nfrm'.payload.ipv4.ok /\ nfrm'.payload.ipv4.dst # "multicast"
        /\ ~nfrm'.payload.arp.ok /\ ~nfrm'.payload.dhcp.ok
        /\ nout' = Frame("", "", nfrm'.payload)]_vars

\* C14: an ARP request for any address T gets exactly one reply: sender
\* protocol address T, sender hardware address the gateway MAC, target
\* addresses the sender addresses of the request, Ethernet source the gateway
\* MAC and destination the source of the request; an ARP that is not a request
\* causes no write.
C14_ArpReply ==
    [][/\ (npc = "read" /\ nfrm' # nfrm /\ nfrm'.payload.arp.ok) =>
            LET req == nfrm'.payload.arp
                rep == nout'.payload.arp
            IN  IF req.op = "request"
                THEN /\ npc' = "devWrite"
                     /\ rep.ok /\ rep.op = "reply"
                     /\ rep.spa = req.tpa /\ rep.sha = gwHWAddr
                     /\ rep.tha = req.sha /\ rep.tpa = req.spa
                     /\ nout'.src = gwHWAddr /\ nout'.dst = nfrm'.src
                ELSE npc' = "skipped" /\ nout' = NoFrame
       /\ (npc = "devWrite" /\ npc' # "devWrite") =>
            (npc' \in {"read", "sendErrCont"} /\ nout' = NoFrame)]_vars

\* The reply to an ARP request for an address other than the gateway's is being
\* written to the device.
C14_Witness ==
    /\ npc = "devWrite"
    /\ nfrm.payload.arp.ok /\ nfrm.payload.arp.tpa = "other"
    /\ nout.payload.arp.spa = "other"

\* C16: no frame a client task takes in (a WebSocket payload, a frame from the
\* device) ends the process.
C16_MalformedInputDropped ==
    [][(wout' # wout \/ nfrm' # nfrm) => cproc' # "crashed"]_vars

\* C17: neither task sends on w.Error the error that the normal closure by Stop
\* causes: ErrCloseSent of a write after the close message, the normal close
\* error of a read.
C17_NoErrorFromNormalClose == nerr # "closeSent" /\ werr # "closeNormal"

\* C19: no two writes to the device are in progress at the same time.
C19_DeviceWritesSerialized == ~(npc = "devWrite" /\ wpc = "devWrite")

\* C20: no two writes on the WebSocket are in progress at the same time.
C20_SingleWsWriter ==
    /\ ~(npc = "wsWrite" /\ spc = "closeWrite")
    /\ cpc = "getConfig" => (npc = "off" /\ spc = "idle")

\* The decoding of a ClasslessStaticRoute option by the rule of RFC 3442: the
\* width of the mask, as many bytes of the destination as the width needs
\* (the others are zero), four bytes of router.
RECURSIVE DecodeRoutes(_)
DecodeRoutes(bytes) ==
    IF bytes = <<>> THEN <<>>
    ELSE LET width == bytes[1]
             k == (width + OctetBits - 1) \div OctetBits
             dest == [j \in 1..IPv4Len |-> IF j <= k THEN bytes[1 + j] ELSE 0]
             router == SubSeq(bytes, 2 + k, 1 + k + IPv4Len)
         IN  <<[IP |-> dest, ones |-> width, gw |-> router]>>
                \o DecodeRoutes(SubSeq(bytes, 2 + k + IPv4Len, Len(bytes)))

RECURSIVE SumLen(_)
SumLen(routes) ==
    IF routes = <<>> THEN 0
    ELSE 1 + ((Head(routes).ones + OctetBits - 1) \div OctetBits) + IPv4Len + SumLen(Tail(routes))

\* C15: the option built for a list of routes has, for each route in list
\* order, one byte of prefix length, the first ceil(length / 8) bytes of the
\* network and the four gateway bytes; decoding it by the RFC 3442 rule gives
\* back the list of (prefix, gateway) pairs; 172.16.0.1/32 via 10.0.0.1 is
\* encoded as 32 172 16 0 1 10 0 0 1.
C15_RouteOptionRoundTrip ==
    routeIn.built =>
        /\ Len(routeOut) = SumLen(routeIn.routes)
        /\ DecodeRoutes(routeOut) =
                [i \in 1..Len(routeIn.routes) |->
                    [IP |-> routeIn.routes[i].IP, ones |-> routeIn.routes[i].ones, gw |-> routeIn.gw]]
        /\ routeIn.routes = <<[IP |-> <<172, 16, 0, 1>>, ones |-> 32]>>
                => routeOut = <<32, 172, 16, 0, 1, 10, 0, 0, 1>>

\* The option has been built for two routes, the first with a prefix length
\* that is not a multiple of eight.
C15_Witness ==
    /\ routeIn.built
    /\ Len(routeIn.routes) = 2
    /\ routeIn.routes[1].ones = 25
    /\ routeIn.routes[1].IP = <<10, 129, 255, 128>>

\* C18: no access of the allocation map by a task in a public IPPam method
\* overlaps a write of the map by another task (as it would be if every method
\* held the IPPam mutex through its access).
C18_MapAccessUnderLock ==
    \A t1, t2 \in LTasks :
        (t1 # t2 /\ lpc[t1].ph = "access" /\ lpc[t2].ph = "access")
            => ~(Writes(lpc[t1].op, lpc[t1].ip) \/ Writes(lpc[t2].op, lpc[t2].ip))

\* C25: GetUserinfo returns a copy of the stored identity, without failing or
\* crashing, for every entry whose status is InUse, including the network, the
\* broadcast and the gateway entries; it fails for an absent entry and for an
\* entry in status Requested.
C25_GetUserinfo ==
    [][call'.op = "GetUserinfo" =>
            IF call'.ip \in DOMAIN allocations /\ allocations[call'.ip].ipStatus = ipStatusInUse
            THEN /\ call'.err = ""
                 /\ proc' = "running"
                 /\ call'.userinfo = allocations[call'.ip].userinfo
            ELSE call'.err \notin {"", "panic"} /\ proc' = "running"]_vars

\* C21: processWSPacket reads no message from the WebSocket and writes nothing
\* to the device until it has observed the interface configured with the
\* leased address; it reads the local hardware address once, after that and
\* before it wraps its first packet; and every frame it writes on a tap device
\* has the gateway's hardware address as source, that local address as
\* destination, the type IPv4 and the received datagram as payload.
C21_ReadyThenWrap ==
    [][/\ (wpc \in {"off", "wait"} /\ wpc' \notin {"off", "wait"}) => osReady
       /\ wpc' \in {"off", "wait"} => (wpkt' = NoPayload /\ wout' = NoFrame /\ werr' = "")
       /\ ifce'.localHWAddr # ifce.localHWAddr =>
            (wpc = "wait" /\ wpc' = "read" /\ osReady /\ ifce'.localHWAddr \in MACs)
       /\ (isTap /\ wpc' = "devWrite") =>
            /\ wout'.src = gwHWAddr
            /\ wout'.dst = ifce'.localHWAddr
            /\ wout'.dst \in MACs
            /\ wout'.payload.etype = "IPv4"
            /\ wout'.payload = wpkt']_vars

\* C22: every binary message written after a device read carries exactly the
\* packet read: the n bytes the read returned (the server's reader, the client
\* on a tun device), or the Ethernet payload of those n bytes (tap), and no
\* byte an earlier, longer packet left in the buffer.
C22_ExactlyTheBytesRead ==
    bpc = "write" =>
        bout = SubSeq(bpkt, IF bmode = "tap" THEN EthHdrLen + 1 ELSE 1, bn)

\* C24: processTUNPacket leaves its loop only on an error of the read of the
\* tunnel, never on an error of WriteMessage (the packet is dropped and the
\* next one read); the read error is sent on r.Error, and once a supervisor
\* that receives from r.Error once has received it, the task ends: it does not
\* wait for a second receive.
C24_ReaderEndsAfterOneReceive ==
    [][/\ (rpc \in {"read", "lookup", "write"} /\ rpc' \notin {"read", "lookup", "write"}) =>
            (rpc = "read" /\ rpc' = "sendErr")
       /\ (rpc = "write" /\ rpc' # "write") => (rpc' = "read" /\ proc' = "running")
       /\ ~(nrecv' = 1 /\ rpc' = "sendNil" /\ proc' = "running")]_vars

\* C23: Stop first writes the close message (normal closure) and closes the
\* connection only after that; when the write of the close message fails Stop
\* returns the error and does not close; the wsEndpoint whose read returns the
\* close (or any read error) releases the address of its client and returns
\* without sending anything on r.Error.
C23_StopThenRelease ==
    [][/\ wsState' # wsState =>
            \/ wsState = "open" /\ wsState' = "closeSent" /\ spc = "closeWrite" /\ spc' = "sleep"
            \/ wsState = "closeSent" /\ wsState' = "closed" /\ spc = "sleep" /\ spc' = "done"
       /\ (spc' = "failed" /\ spc # "failed") => (spc = "closeWrite" /\ wsState' = "open")
       /\ spc' = "done" => wsState' = "closed"
       /\ \A h \in Conns :
            /\ (hpc[h] = "release" /\ hpc'[h] # "release") =>
                    /\ hpc'[h] = "return"
                    /\ hip[h] \in DOMAIN allocations
                    /\ hip[h] \notin DOMAIN allocations'
                    /\ hrel'[h] = hrel[h] + 1
            /\ (hpc[h] = "return" /\ hpc'[h] # "return") => hpc'[h] = "done"
            /\ (hpc'[h] = "sendErr" /\ hpc[h] # "sendErr") => hpc[h] = "read"]_vars

\* Stop has written the close message and closed the connection, and the
\* wsEndpoint of the client has released its address and returned.
C23_Witness ==
    /\ spc = "done" /\ wsState = "closed"
    /\ hpc[ClientConn] = "done" /\ hrel[ClientConn] = 1
    /\ hip[ClientConn] # EmptyStr /\ hip[ClientConn] \notin DOMAIN allocations
    /\ nrecv = 0

====
